---- MODULE Spec2Model ----
(***************************************************************************)
(* State-machine model of gpii-testem's lifecycle component                *)
(* (src/src/js/testem-component.js).                                       *)
(*                                                                         *)
(* Every action below is one turn of the Node event loop: the code that    *)
(* runs from the moment an external party (the Testem runner, rimraf, the  *)
(* instrumenter, the reporter, the express server, a timer) calls into the *)
(* component until control returns to the event loop.  Fluid promises      *)
(* call their handlers synchronously inside resolve()/reject(), in the     *)
(* order in which then() registered them, and an exception thrown by one   *)
(* handler ends the loop over the remaining handlers; a promise-transform  *)
(* chain (fluid.promise.fireTransformEvent) therefore runs synchronously   *)
(* from listener to listener until a listener returns a pending promise.   *)
(***************************************************************************)
EXTENDS Naturals, Sequences, FiniteSets, TLC

\* Number of lifecycle calls whose records are kept at the same time (calls
\* that may overlap); a record is reused once its call has finished.
MaxActive == 2
\* Largest number of stray Temp-* directories under os.tmpdir().
MaxStray == 1
\* Largest number of configured source directories.
MaxSourceDirs == 2
\* Largest number of tokens of a user-agent string.
MaxUaLen == 2
\* Largest number of characters of a test page URL.
MaxUrlLen == 3
\* Largest number of members of a JSON object.
MaxMembers == 2
\* Number of coverage uploads the receiver handles.
MaxUploads == 2
\* Largest value of Math.round(Math.random() * 10000) that is drawn.
MaxRandom == 1
\* Largest number of definitions of a directory group, and of additional
\* proxy paths.
MaxDirs == 2

VARIABLES
    grade,        \* the grade of the component: which listeners its chains have
    nsrc,         \* number of entries of options.sourceDirs
    tmpReadable,  \* FALSE: the try block of cleanupTestemContent throws
    fs,           \* the directories of this run that exist on disk
    strays,       \* Temp-* directories under os.tmpdir()
    express,      \* that.express and the state of its HTTP server
    lastStop,     \* server state seen by the latest gpii.express.stopServer
    lst,          \* per secondary event: the singleUse namespace's listeners
    timers,       \* calls whose setTimeout of addPromiseTimeout is armed
    mkdirp,       \* TRUE while the mkdirp of initMiddleware is in flight
    uncaught,     \* an exception escaped from an event listener or timer
    calls,        \* one record per handleTestemStart/handleTestemExit call
    uploads,      \* one record per invocation of the coverage receiver
    files,        \* the files of the coverage directory: name -> content
    arg,          \* the argument of a function applied on its own
    result        \* what that function returned

lifecycleVars == <<grade, nsrc, tmpReadable, fs, strays, express, lastStop,
                   lst, timers, mkdirp, uncaught, calls>>

vars == <<grade, nsrc, tmpReadable, fs, strays, express, lastStop, lst,
          timers, mkdirp, uncaught, calls, uploads, files, arg, result>>

Calls  == 1..MaxActive
Grades == {"base", "instrumentation", "testem"}
Events == {"onFixturesConstructed", "onFixturesStopped"}

-----------------------------------------------------------------------------
(* Configuration *)

onlyTestemContent ==
    << [name |-> "testem", isTestemContent |-> TRUE] >>

everythingButCoverage ==
    onlyTestemContent \o << [name |-> "instrumented", isTestemContent |-> FALSE] >>

everything ==
    everythingButCoverage \o << [name |-> "coverage", isTestemContent |-> FALSE] >>

\* options.cleanup.initial / options.cleanup.final of the three grades (the
\* grade gpii.testem.coverage keeps the lists and the chains of the base).
cleanupDefs ==
    CASE grade = "base"            -> onlyTestemContent
      [] grade = "instrumentation" -> everythingButCoverage
      [] grade = "testem"          -> everything

\* As onTestemStartListeners, with constructFixtures given priority "first".
onTestemStartListenersConstructFirst ==
    <<"constructFixtures", "cleanup">>
    \o (IF grade \in {"instrumentation", "testem"} THEN <<"instrument">> ELSE <<>>)
    \o <<"waitForFixtures">>

\* The listeners of onTestemStart in priority order: cleanup (first),
\* instrument (after:cleanup), constructFixtures (after:cleanup, or
\* after:instrument), waitForFixtures (after:constructFixtures).
onTestemStartListeners ==
    <<"cleanup">>
    \o (IF grade \in {"instrumentation", "testem"} THEN <<"instrument">> ELSE <<>>)
    \o <<"constructFixtures", "waitForFixtures">>

\* As onTestemExitListeners, with the final cleanup given a priority before
\* that of the coverage report.
onTestemExitListenersCleanupBeforeReport ==
    <<"stopExpress", "waitForFixtures", "cleanup">>
    \o (IF grade = "testem" THEN <<"coverageReport">> ELSE <<>>)

\* The listeners of onTestemExit in priority order: stopExpress (first),
\* waitForFixtures (after:stopExpress), coverageReport
\* (after:waitForFixtures), cleanup (last).
onTestemExitListeners ==
    <<"stopExpress", "waitForFixtures">>
    \o (IF grade = "testem" THEN <<"coverageReport">> ELSE <<>>)
    \o <<"cleanup">>

Listeners(kind) ==
    IF kind = "start" THEN onTestemStartListeners ELSE onTestemExitListeners

\* The secondary event a chain waits for.
EventOf(kind) ==
    IF kind = "start" THEN "onFixturesConstructed" ELSE "onFixturesStopped"

NoWait == [disp |-> "none", value |-> "none"]

\* No argument given, nothing returned yet.
NoValue == [done |-> FALSE]

IdleCall ==
    [kind |-> "none", pc |-> "idle", n |-> 0, steps |-> <<>>,
     i |-> 0, q |-> <<>>, rm |-> 0, k |-> 0, ins |-> 0,
     cb |-> 0, out |-> "none", sync |-> FALSE, thrown |-> FALSE,
     wait |-> NoWait, rejBy |-> "none", sawMissing |-> FALSE]

-----------------------------------------------------------------------------
(* The mutable state handed from handler to handler within one turn.  env  *)
(* is the input of the turn that the code does not decide: whether the     *)
(* HTTP server answers a stop request it gets while not running by         *)
(* signalling "stopped" once more.                                         *)
(* What only records the past (the record of a finished call, sawMissing,  *)
(* lastStop, uncaught) describes the latest turn: it is cleared when a     *)
(* turn begins.                                                            *)

Range(f) == {f[x] : x \in DOMAIN f}

\* The record of call c can be used for a new call: no call is using it and
\* nothing of an earlier call still refers to it.
Free(c) ==
    /\ calls[c].pc \in {"idle", "done"}
    /\ c \notin timers
    /\ \A ev \in Events : c \notin Range(lst[ev])

S(env) ==
    [fs |-> fs, strays |-> strays, express |-> express, lastStop |-> "none",
     lst |-> lst, timers |-> timers, mkdirp |-> mkdirp, uncaught |-> FALSE,
     calls |-> [c \in Calls |-> IF Free(c) THEN IdleCall
                                ELSE [calls[c] EXCEPT !.sawMissing = FALSE]],
     env |-> env]

Apply(s) ==
    /\ fs' = s.fs
    /\ strays' = s.strays
    /\ express' = s.express
    /\ lastStop' = s.lastStop
    /\ lst' = s.lst
    /\ timers' = s.timers
    /\ mkdirp' = s.mkdirp
    /\ uncaught' = s.uncaught
    /\ calls' = s.calls
    /\ UNCHANGED <<grade, nsrc, tmpReadable, uploads, files, arg, result>>

Exists(s, t) == IF t = "stray" THEN s.strays > 0 ELSE t \in s.fs

\* rimraf(path, options, callback): removing a path that does not exist
\* succeeds; removing one that exists succeeds or reports an error.
RimrafOutcomes(exists) == IF exists THEN {"ok", "err"} ELSE {"ok"}

Removed(s, t) ==
    IF t = "stray"
    THEN [s EXCEPT !.strays = IF @ > 0 THEN @ - 1 ELSE 0]
    ELSE [s EXCEPT !.fs = @ \ {t}]

-----------------------------------------------------------------------------
(* gpii.testem.handleTestemLifecycleEvent *)

\* As eventTransformChainThen, with no rejection handler given to then().
eventTransformChainThenResolveOnly(s, c, disp) ==
    [s EXCEPT !.calls[c].pc = "done",
              !.calls[c].out = disp,
              !.calls[c].cb = IF disp = "resolved" THEN @ + 1 ELSE @]

\* The two handlers given to eventTransformChain.then: log, then call the
\* Testem callback.
eventTransformChainThen(s, c, disp) ==
    [s EXCEPT !.calls[c].pc = "done",
              !.calls[c].out = disp,
              !.calls[c].cb = @ + 1]

RECURSIVE RunFrom(_, _, _)
RECURSIVE cleanupSequence(_, _, _)

-----------------------------------------------------------------------------
(* gpii.testem.cleanup and its helpers *)

\* togo of gpii.testem.cleanup settles: the stage is logged, and togo is the
\* promise the listener returned to the transform chain.
cleanupTogoSettles(s, c, disp, by) ==
    LET s1 == [s EXCEPT !.calls[c].rejBy = by,
                        !.calls[c].i = 0,
                        !.calls[c].q = <<>>]
    IN  IF disp = "resolved"
        THEN RunFrom(s1, c, s.calls[c].n + 1)
        ELSE eventTransformChainThen(s1, c, "rejected")

\* fluid.promise.sequence(cleanupPromises) of gpii.testem.cleanup: the
\* promise of definition i settled.
cleanupStepSettles(s, c, i, disp, by) ==
    IF disp = "resolved"
    THEN cleanupSequence(s, c, i + 1)
    ELSE cleanupTogoSettles(s, c, "rejected", by)

\* The disposition of the rimraf wrapper's promise in the rimraf callback.
generateRimrafWrapper(r) == IF r = "err" THEN "rejected" ELSE "resolved"

\* cleanupDir, ordinary definition, the rimraf callback: warn or log, then
\* promise.resolve().
cleanupDirRimrafCallback(r) == "resolved"

\* As cleanupDirNoContent, with the missing directory treated as a failure.
cleanupDirNoContentRejects == "rejected"

\* cleanupDir, ordinary definition, !fs.existsSync(resolvedPath): log and
\* promise.resolve().
cleanupDirNoContent == "resolved"

\* rimraf(path, options, callback) is called: one more removal of call c is
\* in flight.
rimraf(s, c) == [s EXCEPT !.calls[c].rm = @ + 1]

\* As cleanupTestemContent, with every wrapper invoked when the list is made.
cleanupTestemContentAllAtOnce(s, c, i) ==
    IF ~tmpReadable
    THEN cleanupStepSettles(s, c, i, "rejected", "scan")
    ELSE [s EXCEPT !.calls[c].pc = "rimraf",
                   !.calls[c].i = i,
                   !.calls[c].q = <<cleanupDefs[i].name>>
                                  \o [x \in 1..s.strays |-> "stray"],
                   !.calls[c].rm = 1 + s.strays]

\* cleanupTestemContent: the try block throws (togo.reject in the catch), or
\* the wrappers of the main path and of every Temp-* entry of os.tmpdir()
\* are put in a sequence, whose first wrapper is invoked.
cleanupTestemContent(s, c, i) ==
    IF ~tmpReadable
    THEN cleanupStepSettles(s, c, i, "rejected", "scan")
    ELSE rimraf([s EXCEPT !.calls[c].pc = "rimraf",
                          !.calls[c].i = i,
                          !.calls[c].q = <<cleanupDefs[i].name>>
                                         \o [x \in 1..s.strays |-> "stray"]], c)

\* The function cleanupDir returns, run when it is the definition's turn.
cleanupDir(s, c, i) ==
    LET def == cleanupDefs[i]
    IN  IF def.isTestemContent
        THEN cleanupTestemContent(s, c, i)
        ELSE IF ~Exists(s, def.name)
             THEN cleanupStepSettles(
                      [s EXCEPT !.calls[c].sawMissing = TRUE], c, i,
                      cleanupDirNoContent, "missing")
             ELSE rimraf([s EXCEPT !.calls[c].pc = "rimraf",
                                   !.calls[c].i = i,
                                   !.calls[c].q = <<def.name>>], c)

cleanupSequence(s, c, i) ==
    IF i > Len(cleanupDefs)
    THEN cleanupTogoSettles(s, c, "resolved", "none")
    ELSE cleanupDir(s, c, i)

\* gpii.testem.cleanup(stage, cleanupDefs, rimrafOptions)
cleanup(s, c) == cleanupSequence(s, c, 1)

\* The callback rimraf calls with result r for the removal in flight.
rimrafCallback(s, c, r) ==
    LET call    == s.calls[c]
        i       == call.i
        t       == Head(call.q)
        existed == Exists(s, t)
        why     == IF existed THEN "rimraf" ELSE "missing"
        s1      == IF r = "ok" THEN Removed(s, t) ELSE s
        s2      == [s1 EXCEPT !.calls[c].sawMissing = @ \/ (t # "stray" /\ ~existed),
                              !.calls[c].rm = @ - 1]
    IN  IF cleanupDefs[i].isTestemContent
        THEN IF generateRimrafWrapper(r) = "rejected"
             THEN cleanupStepSettles(s2, c, i, "rejected", why)
             ELSE IF Tail(call.q) # <<>>
                  THEN rimraf([s2 EXCEPT !.calls[c].q = Tail(@)], c)
                  ELSE cleanupStepSettles(s2, c, i, "resolved", "none")
        ELSE cleanupStepSettles(s2, c, i, cleanupDirRimrafCallback(r), why)

-----------------------------------------------------------------------------
(* gpii.testem.coverage.instrumentSource *)

\* gpii.testem.instrumenter.instrument(...) is called: one more
\* instrumentation of call c is in flight.
instrument(s, c) == [s EXCEPT !.calls[c].ins = @ + 1]

\* fluid.promise.sequence(promises): start the instrumentation of source
\* directory k, or resolve when every directory is done.
instrumentSequence(s, c, k) ==
    IF k > nsrc
    THEN RunFrom([s EXCEPT !.calls[c].k = 0], c, s.calls[c].n + 1)
    ELSE instrument([s EXCEPT !.calls[c].pc = "instrument", !.calls[c].k = k], c)

instrumentSource(s, c) == instrumentSequence(s, c, 1)

\* The sequence rejects.  Its first rejection handler is the one
\* instrumentSource registered: it logs and calls fluid.fail, which throws;
\* the handler the transform chain registered after it is never run, so the
\* chain's promise stays pending.
instrumentSourceOnReject(s, c) ==
    [s EXCEPT !.calls[c].pc = "abandoned", !.calls[c].thrown = TRUE]

\* As instrumentCallback, with a failed directory passed over as a failed
\* removal is.
instrumentCallbackGoesOn(s, c, r) ==
    IF r = "ok"
    THEN instrumentSequence([s EXCEPT !.fs = @ \cup {"instrumented"},
                                      !.calls[c].ins = @ - 1],
                            c, s.calls[c].k + 1)
    ELSE instrumentSequence([s EXCEPT !.calls[c].ins = @ - 1], c, s.calls[c].k + 1)

\* The instrumenter settles the promise of the directory in flight.
instrumentCallback(s, c, r) ==
    IF r = "ok"
    THEN instrumentSequence([s EXCEPT !.fs = @ \cup {"instrumented"},
                                      !.calls[c].ins = @ - 1],
                            c, s.calls[c].k + 1)
    ELSE instrumentSourceOnReject([s EXCEPT !.calls[c].ins = @ - 1], c)

-----------------------------------------------------------------------------
(* The content server *)

\* gpii.express.stopServer(that.express): close the HTTP server.
expressStopServer(e, again) ==
    CASE e \in {"starting", "running", "stopping"} -> "stopping"
      [] OTHER -> IF again THEN "stopping" ELSE e

\* gpii.testem.stopServer
stopServer(s) ==
    IF s.express # "none"
    THEN [s EXCEPT !.lastStop = s.express,
                   !.express = expressStopServer(s.express, s.env)]
    ELSE s

\* {that}.events.constructFixtures.fire: the express component is created
\* (createOnEvent), its server starts to listen and the receiver
\* middleware's onCreate.init calls mkdirp(coverageDir).
constructFixtures(s) ==
    [s EXCEPT !.express = "starting", !.mkdirp = TRUE]

-----------------------------------------------------------------------------
(* gpii.testem.wrapSecondaryEvent and its helpers *)

\* event.removeListener(listenerNamespace): the listeners of one namespace
\* form a stack; the latest registration is the one taken off.
removeListener(s, ev) ==
    [s EXCEPT !.lst[ev] = IF @ = <<>> THEN @ ELSE Tail(@)]

\* As clearPromiseTimeout, with the timer left armed.
clearPromiseTimeoutKeepsTimer(s, c) == s

\* clearTimeout(timeoutID)
clearPromiseTimeout(s, c) == [s EXCEPT !.timers = @ \ {c}]

\* eventPromise settles; its handlers run in registration order:
\* removeListener, clearPromiseTimeout, then the transform chain's.
eventPromiseSettles(s, c, disp, value) ==
    LET s1 == removeListener(s, EventOf(s.calls[c].kind))
        s2 == clearPromiseTimeout(s1, c)
        s3 == [s2 EXCEPT !.calls[c].wait = [disp |-> disp, value |-> value]]
    IN  IF disp = "resolve"
        THEN RunFrom(s3, c, s.calls[c].n + 1)
        ELSE eventTransformChainThen(s3, c, "rejected")

\* eventPromise.resolve(value): fluid.fail (an exception) when the promise
\* has a disposition already.
eventPromiseResolve(s, c, value) ==
    IF s.calls[c].wait.disp = "none"
    THEN eventPromiseSettles(s, c, "resolve", value)
    ELSE [s EXCEPT !.uncaught = TRUE]

\* The listener added by generateSingleUseEventListener.
singleUseListener(s, c) == eventPromiseResolve(s, c, "args")

\* As promiseTimeout, with the promise rejected with rejectionPayload.
promiseTimeoutRejects(s, c) ==
    IF s.calls[c].wait.disp = "none"
    THEN eventPromiseSettles(s, c, "reject", "rejectionPayload")
    ELSE [s EXCEPT !.uncaught = TRUE]

\* The function given to setTimeout by addPromiseTimeout.
promiseTimeout(s, c) == eventPromiseResolve(s, c, "undefined")

\* event.addListener(fn, listenerNamespace): put on top of the namespace's
\* stack; only the top listener of a namespace is notified.
generateSingleUseEventListener(s, c) ==
    [s EXCEPT !.lst[EventOf(s.calls[c].kind)] = <<c>> \o @]

\* setTimeout(..., timeoutInMillis)
addPromiseTimeout(s, c) == [s EXCEPT !.timers = @ \cup {c}]

wrapSecondaryEvent(s, c) ==
    [addPromiseTimeout(generateSingleUseEventListener(s, c), c)
        EXCEPT !.calls[c].pc = "wait"]

\* event.fire(): notify the top listener of the singleUse namespace.
fireEvent(s, ev) ==
    IF s.lst[ev] = <<>> THEN s ELSE singleUseListener(s, Head(s.lst[ev]))

-----------------------------------------------------------------------------
(* fluid.promise.fireTransformEvent(componentEvent): listener n of the     *)
(* chain of call c is invoked; a listener that returns no promise lets the *)
(* chain go on at once.  steps lists the listeners invoked so far.         *)

RunFrom(s, c, n) ==
    LET L  == Listeners(s.calls[c].kind)
        s0 == [s EXCEPT !.calls[c].n = n,
                        !.calls[c].steps = IF n > Len(L) THEN @ ELSE Append(@, L[n])]
    IN  IF n > Len(L)
        THEN eventTransformChainThen(s0, c, "resolved")
        ELSE CASE L[n] = "cleanup"           -> cleanup(s0, c)
               [] L[n] = "instrument"        -> instrumentSource(s0, c)
               [] L[n] = "constructFixtures" -> RunFrom(constructFixtures(s0), c, n + 1)
               [] L[n] = "stopExpress"       -> RunFrom(stopServer(s0), c, n + 1)
               [] L[n] = "waitForFixtures"   -> wrapSecondaryEvent(s0, c)
               [] L[n] = "coverageReport"    -> [s0 EXCEPT !.calls[c].pc = "report"]

\* handleTestemStart / handleTestemExit
handleTestemLifecycleEvent(s, c, kind) ==
    LET s1 == RunFrom([s EXCEPT !.calls[c] = [IdleCall EXCEPT !.kind = kind]], c, 1)
    IN  [s1 EXCEPT !.calls[c].sync = (s1.calls[c].cb > 0)]

\* The reporter settles the promise returned by {that}.reporter.report.
reportCallback(s, c, r) ==
    IF r = "ok"
    THEN RunFrom(s, c, s.calls[c].n + 1)
    ELSE eventTransformChainThen(s, c, "rejected")

-----------------------------------------------------------------------------
(* Actions *)

\* The runner calls on_start (kind "start") or on_exit (kind "exit").
Call(kind, env) ==
    /\ \E c \in Calls : Free(c)
    /\ LET c == CHOOSE x \in Calls : Free(x) /\ \A y \in Calls : Free(y) => x <= y
       IN  Apply(handleTestemLifecycleEvent(S(env), c, kind))

RimrafDone(c, r) ==
    /\ calls[c].pc = "rimraf"
    /\ r \in RimrafOutcomes(Exists(S(FALSE), Head(calls[c].q)))
    /\ Apply(rimrafCallback(S(FALSE), c, r))

InstrumentDone(c, r) ==
    /\ calls[c].pc = "instrument"
    /\ Apply(instrumentCallback(S(FALSE), c, r))

ReportDone(c, r) ==
    /\ calls[c].pc = "report"
    /\ Apply(reportCallback(S(FALSE), c, r))

\* The timer of addPromiseTimeout expires.
Timeout(c) ==
    /\ c \in timers
    /\ Apply(promiseTimeout([S(FALSE) EXCEPT !.timers = @ \ {c}], c))

\* The server is listening: onStarted.notifyParent fires onExpressStarted,
\* which fires onFixturesConstructed.
ServerStarted ==
    /\ express = "starting"
    /\ Apply(fireEvent([S(FALSE) EXCEPT !.express = "running"], "onFixturesConstructed"))

\* The server cannot bind its port: onStarted never fires.
ServerFails ==
    /\ express = "starting"
    /\ Apply([S(FALSE) EXCEPT !.express = "failed"])

\* The server has closed: onStopped.notifyParent fires onExpressStopped,
\* which fires onFixturesStopped.
ServerStopped ==
    /\ express = "stopping"
    /\ Apply(fireEvent([S(FALSE) EXCEPT !.express = "stopped"], "onFixturesStopped"))

\* mkdirp(that.options.coverageDir) completes.
MkdirpDone ==
    /\ mkdirp
    /\ Apply([S(FALSE) EXCEPT !.mkdirp = FALSE, !.fs = @ \cup {"coverage"}])

\* The runner launches browsers against the running server: Testem writes
\* its browser data directory and leaves Temp-* directories in os.tmpdir().
BrowserRun ==
    /\ express = "running"
    /\ Apply([S(FALSE) EXCEPT !.fs = @ \cup {"testem"},
                              !.strays = IF @ < MaxStray THEN @ + 1 ELSE @])

Init ==
    /\ grade \in Grades
    /\ nsrc \in 0..MaxSourceDirs
    /\ grade = "base" => nsrc = 0
    /\ tmpReadable \in BOOLEAN
    /\ fs = {}
    /\ strays \in 0..MaxStray
    /\ express = "none"
    /\ lastStop = "none"
    /\ lst = [ev \in Events |-> <<>>]
    /\ timers = {}
    /\ mkdirp = FALSE
    /\ uncaught = FALSE
    /\ calls = [c \in Calls |-> IdleCall]
    /\ uploads = <<>>
    /\ files = <<>>
    /\ arg = NoValue
    /\ result = NoValue

Next ==
    \/ \E kind \in {"start", "exit"}, env \in BOOLEAN : Call(kind, env)
    \/ \E c \in Calls, r \in {"ok", "err"} : RimrafDone(c, r)
    \/ \E c \in Calls, r \in {"ok", "fail"} : InstrumentDone(c, r)
    \/ \E c \in Calls, r \in {"ok", "fail"} : ReportDone(c, r)
    \/ \E c \in Calls : Timeout(c)
    \/ ServerStarted
    \/ ServerFails
    \/ ServerStopped
    \/ MkdirpDone
    \/ BrowserRun

Spec == Init /\ [][Next]_vars

-----------------------------------------------------------------------------
(* gpii.testem.coverage.receiver.uaMatch                                   *)
(*                                                                         *)
(* A user-agent string is a sequence of tokens "<word><separator><version>"*)
(* separated by blanks; a token without version has ver = "".  The regular *)
(* expressions are read as searches over the tokens.                       *)

Tok(w, sep, ver) == [w |-> w, sep |-> sep, ver |-> ver]

UaTokens ==
    { Tok("Chrome", "/", "1"), Tok("chrome", " ", "2"), Tok("WebKit", "/", "3"),
      Tok("Opera", "/", "4"), Tok("Version", "/", "5"), Tok("MSIE", " ", "6"),
      Tok("MSIE", "/", "6"), Tok("Mozilla", "/", "7"), Tok("rv", ":", "8"),
      Tok("compatible", ";", ""), Tok("SomeBot", "/", "1") }

\* The values fluid.get(body, "navigator.userAgent") can have: undefined, or
\* a string.
Undefined == [present |-> FALSE]
Str(s) == [present |-> TRUE, s |-> s]

UserAgents ==
    {Undefined} \cup
    UNION { {Str(s) : s \in [1..len -> UaTokens]} : len \in 0..MaxUaLen }

\* String.prototype.toLowerCase on one word.
toLowerCaseWord(w) ==
    CASE w = "Chrome"  -> "chrome"
      [] w = "WebKit"  -> "webkit"
      [] w = "Opera"   -> "opera"
      [] w = "Version" -> "version"
      [] w = "MSIE"    -> "msie"
      [] w = "Mozilla" -> "mozilla"
      [] w = "SomeBot" -> "somebot"
      [] OTHER         -> w

toLowerCase(s) == [x \in 1..Len(s) |-> [s[x] EXCEPT !.w = toLowerCaseWord(@)]]

Min(xs) == CHOOSE x \in xs : \A y \in xs : x <= y
Max(xs) == CHOOSE x \in xs : \A y \in xs : x >= y

\* RegExp.exec returns null, or the array [whole match, group 1, group 2];
\* a group that took no part in the match is undefined (here "").
NoMatch == [found |-> FALSE, g1 |-> "", g2 |-> ""]
Match(g1, g2) == [found |-> TRUE, g1 |-> g1, g2 |-> g2]

\* /(word)[seps]([\w.]+)/ : the leftmost token of that word with one of the
\* separators and a version.
execWord(ua, word, seps) ==
    LET X == {x \in 1..Len(ua) :
                 ua[x].w = word /\ ua[x].sep \in seps /\ ua[x].ver # ""}
    IN  IF X = {} THEN NoMatch ELSE Match(word, ua[Min(X)].ver)

\* /(opera)(?:.*version|)[ \/]([\w.]+)/ : the leftmost "opera"; the version
\* is that of the last "version" token after it (.* is greedy), or else the
\* one of the opera token itself.
execOpera(ua) ==
    LET V(x) == {y \in (x + 1)..Len(ua) :
                    ua[y].w = "version" /\ ua[y].sep \in {" ", "/"} /\ ua[y].ver # ""}
        D(x) == ua[x].sep \in {" ", "/"} /\ ua[x].ver # ""
        X == {x \in 1..Len(ua) : ua[x].w = "opera" /\ (V(x) # {} \/ D(x))}
    IN  IF X = {} THEN NoMatch
        ELSE LET x == Min(X)
             IN  Match("opera", IF V(x) # {} THEN ua[Max(V(x))].ver ELSE ua[x].ver)

\* /(mozilla)(?:.*? rv:([\w.]+)|)/ : the leftmost "mozilla"; the version is
\* that of the first " rv:" after it (.*? is lazy), or undefined.
execMozilla(ua) ==
    LET R(x) == {y \in (x + 1)..Len(ua) :
                    ua[y].w = "rv" /\ ua[y].sep = ":" /\ ua[y].ver # ""}
        X == {x \in 1..Len(ua) : ua[x].w = "mozilla"}
    IN  IF X = {} THEN NoMatch
        ELSE LET x == Min(X)
             IN  Match("mozilla", IF R(x) # {} THEN ua[Min(R(x))].ver ELSE "")

\* ua.indexOf("compatible") < 0
notCompatible(ua) == \A x \in 1..Len(ua) : ua[x].w # "compatible"

TypeError == [done |-> TRUE, thrown |-> TRUE]
Returned(v) == [done |-> TRUE, thrown |-> FALSE, value |-> v]

\* As uaMatchResult, with the WebKit pattern tried before the Chrome one.
uaMatchResultWebkitFirst(ua) ==
    LET m == CASE execWord(ua, "webkit", {" ", "/"}).found ->
                      execWord(ua, "webkit", {" ", "/"})
               [] execWord(ua, "chrome", {" ", "/"}).found ->
                      execWord(ua, "chrome", {" ", "/"})
               [] execOpera(ua).found -> execOpera(ua)
               [] execWord(ua, "msie", {" "}).found -> execWord(ua, "msie", {" "})
               [] notCompatible(ua) /\ execMozilla(ua).found -> execMozilla(ua)
               [] OTHER -> NoMatch
    IN  [name    |-> IF m.g1 # "" THEN m.g1 ELSE "unknown",
         version |-> IF m.g2 # "" THEN m.g2 ELSE "0"]

\* The chain of || over the five patterns, then match[1] || "unknown" and
\* match[2] || "0".
uaMatchResult(ua) ==
    LET m == IF execWord(ua, "chrome", {" ", "/"}).found
             THEN execWord(ua, "chrome", {" ", "/"})
             ELSE IF execWord(ua, "webkit", {" ", "/"}).found
             THEN execWord(ua, "webkit", {" ", "/"})
             ELSE IF execOpera(ua).found
             THEN execOpera(ua)
             ELSE IF execWord(ua, "msie", {" "}).found
             THEN execWord(ua, "msie", {" "})
             ELSE IF notCompatible(ua) /\ execMozilla(ua).found
             THEN execMozilla(ua)
             ELSE NoMatch
    IN  [name    |-> IF m.g1 # "" THEN m.g1 ELSE "unknown",
         version |-> IF m.g2 # "" THEN m.g2 ELSE "0"]

\* uaMatch(ua): ua.toLowerCase() is a TypeError when ua is undefined.
uaMatch(ua) ==
    IF ~ua.present THEN TypeError ELSE Returned(uaMatchResult(toLowerCase(ua.s)))

-----------------------------------------------------------------------------
(* JSON.stringify(value, null, 2) and JSON.parse, over texts that are      *)
(* sequences of lexical tokens.  An object keeps its members in insertion  *)
(* order.                                                                  *)

JNull   == [t |-> "null"]
JNum(n) == [t |-> "num", v |-> n]
JStr(s) == [t |-> "str", v |-> s]
JObj(m) == [t |-> "obj", m |-> m]

JsonKeys  == {"a", "b"}
JsonAtoms == {JNull, JNum("1"), JStr("s")}

\* The member lists of an object over values vs: keys are distinct.
MemberLists(vs) ==
    UNION { {m \in [1..len -> [k : JsonKeys, v : vs]] :
                \A x, y \in 1..len : x # y => m[x].k # m[y].k}
            : len \in 0..MaxMembers }

\* Coverage objects: flat objects, and objects with one nested object.
JsonValues ==
    JsonAtoms
    \cup {JObj(m) : m \in MemberLists(JsonAtoms)}
    \cup {JObj(<<[k |-> "a", v |-> JObj(m)]>>) : m \in MemberLists(JsonAtoms)}

Punct(c)  == [tok |-> "punct", v |-> c]
Lit(kind, v) == [tok |-> kind, v |-> v]
Newline   == [tok |-> "ws", v |-> "nl"]
Indent(d) == [x \in 1..d |-> [tok |-> "ws", v |-> "  "]]

RECURSIVE stringify(_, _)
RECURSIVE stringifyMembers(_, _, _)

stringifyMembers(m, x, d) ==
    IF x > Len(m) THEN <<>>
    ELSE <<Newline>> \o Indent(d) \o <<Lit("str", m[x].k), Punct(":"), [tok |-> "ws", v |-> " "]>>
         \o stringify(m[x].v, d)
         \o (IF x < Len(m) THEN <<Punct(",")>> ELSE <<>>)
         \o stringifyMembers(m, x + 1, d)

\* The text of value v inside d levels of objects.
stringify(v, d) ==
    CASE v.t = "null" -> <<Lit("null", "null")>>
      [] v.t = "num"  -> <<Lit("num", v.v)>>
      [] v.t = "str"  -> <<Lit("str", v.v)>>
      [] v.t = "obj"  ->
             IF v.m = <<>> THEN <<Punct("{"), Punct("}")>>
             ELSE <<Punct("{")>> \o stringifyMembers(v.m, 1, d + 1)
                  \o <<Newline>> \o Indent(d) \o <<Punct("}")>>

JSONstringify(v) == stringify(v, 0)

\* The text without its white space.
RECURSIVE skipWs(_)
skipWs(ts) ==
    IF ts = <<>> THEN <<>>
    ELSE IF Head(ts).tok = "ws" THEN skipWs(Tail(ts))
    ELSE <<Head(ts)>> \o skipWs(Tail(ts))

SyntaxError == [ok |-> FALSE]

RECURSIVE parseValue(_, _)
RECURSIVE parseMembers(_, _, _)

\* The members of an object from position p on, after members m: the
\* object and the position after its "}".
parseMembers(ts, p, m) ==
    IF p + 1 > Len(ts) \/ ts[p].tok # "str" \/ ts[p + 1] # Punct(":")
    THEN SyntaxError
    ELSE LET r == parseValue(ts, p + 2)
         IN  IF ~r.ok \/ r.p > Len(ts) THEN SyntaxError
             ELSE LET m1 == Append(m, [k |-> ts[p].v, v |-> r.v])
                  IN  IF ts[r.p] = Punct("}")
                      THEN [ok |-> TRUE, v |-> JObj(m1), p |-> r.p + 1]
                      ELSE IF ts[r.p] = Punct(",")
                      THEN parseMembers(ts, r.p + 1, m1)
                      ELSE SyntaxError

\* The value that starts at position p of a text without white space, and
\* the position after it.
parseValue(ts, p) ==
    IF p > Len(ts) THEN SyntaxError
    ELSE CASE ts[p].tok = "null" -> [ok |-> TRUE, v |-> JNull, p |-> p + 1]
           [] ts[p].tok = "num"  -> [ok |-> TRUE, v |-> JNum(ts[p].v), p |-> p + 1]
           [] ts[p].tok = "str"  -> [ok |-> TRUE, v |-> JStr(ts[p].v), p |-> p + 1]
           [] ts[p] = Punct("{") ->
                  IF p + 1 <= Len(ts) /\ ts[p + 1] = Punct("}")
                  THEN [ok |-> TRUE, v |-> JObj(<<>>), p |-> p + 2]
                  ELSE parseMembers(ts, p + 1, <<>>)
           [] OTHER -> SyntaxError

JSONparse(text) ==
    LET ts == skipWs(text)
        r  == parseValue(ts, 1)
    IN  IF r.ok /\ r.p = Len(ts) + 1 THEN [ok |-> TRUE, v |-> r.v] ELSE SyntaxError

\* The component's variables while only the receiver or a function is run.
LifecycleUnused ==
    /\ grade = "testem"
    /\ nsrc = 0
    /\ tmpReadable = TRUE
    /\ fs = {}
    /\ strays = 0
    /\ express = "none"
    /\ lastStop = "none"
    /\ lst = [ev \in Events |-> <<>>]
    /\ timers = {}
    /\ mkdirp = FALSE
    /\ uncaught = FALSE
    /\ calls = [c \in Calls |-> IdleCall]

InitUaMatch ==
    /\ LifecycleUnused
    /\ uploads = <<>>
    /\ files = <<>>
    /\ arg \in UserAgents
    /\ result = NoValue

CallUaMatch ==
    /\ ~result.done
    /\ result' = uaMatch(arg)
    /\ UNCHANGED <<lifecycleVars, uploads, files, arg>>

NextUaMatch == CallUaMatch

SpecUaMatch == InitUaMatch /\ [][NextUaMatch]_vars

-----------------------------------------------------------------------------
(* gpii.testem.coverage.receiver.middlewareImpl                            *)
(*                                                                         *)
(* A string is a sequence of symbols: the characters of a URL, or a word   *)
(* taken as one symbol.                                                    *)

UrlChars == {"/", "a", "."}

\* The values fluid.get(body.document, "URL") can have.
Urls ==
    {Undefined} \cup
    UNION { {Str(s) : s \in [1..len -> UrlChars]} : len \in 0..MaxUrlLen }

\* that.id of the middleware component.
ReceiverId == "receiver-1"

\* As lastSegment, with the first segment taken.
firstSegment(s) ==
    LET X == {x \in 1..Len(s) : s[x] = "/"}
    IN  IF X = {} THEN s ELSE SubSeq(s, 1, Min(X) - 1)

\* testPath.split("/").pop()
lastSegment(s) ==
    LET X == {x \in 1..Len(s) : s[x] = "/"}
    IN  IF X = {} THEN s ELSE SubSeq(s, Max(X) + 1, Len(s))

\* testPath ? testPath.split("/").pop() : "unknown" (undefined and the empty
\* string are falsy).
testFilename(testPath) ==
    IF testPath.present /\ testPath.s # <<>>
    THEN lastSegment(testPath.s)
    ELSE <<"unknown">>

\* [...].join("")
coverageFilename(browser, filename, rand) ==
    <<"coverage", "-", browser.name, "-", browser.version, "-">>
    \o filename
    \o <<"-", ReceiverId, "-", ToString(rand), ".json">>

\* The parsed payload of an upload.
Body(ua, url, coverage) == [userAgent |-> ua, URL |-> url, coverage |-> coverage]

\* The handler up to its return: an exception of uaMatch ends it, otherwise
\* fs.writeFile is started.
middlewareImpl(body, rand) ==
    LET browser == uaMatch(body.userAgent)
    IN  IF browser.thrown
        THEN [body |-> body, state |-> "thrown", name |-> <<>>, data |-> <<>>,
              writes |-> 0, wrote |-> "none", responses |-> <<>>]
        ELSE [body |-> body, state |-> "writing",
              name |-> coverageFilename(browser.value, testFilename(body.URL), rand),
              data |-> JSONstringify(body.coverage),
              writes |-> 1, wrote |-> "none", responses |-> <<>>]

\* As writeFileCallback, answering 200 whatever the outcome of the write.
writeFileCallbackAlwaysOk(error) ==
    [status |-> 200, isError |-> FALSE, message |-> "saved"]

\* The callback given to fs.writeFile: the response it sends.
writeFileCallback(error) ==
    IF error
    THEN [status |-> 500, isError |-> TRUE, message |-> "error"]
    ELSE [status |-> 200, isError |-> FALSE, message |-> "saved"]

\* A request reaches the handler.
Upload(body, rand) ==
    /\ Len(uploads) < MaxUploads
    /\ uploads' = Append(uploads, middlewareImpl(body, rand))
    /\ UNCHANGED <<lifecycleVars, files, arg, result>>

\* fs.writeFile of upload u ends: the file has the data, or the write failed.
WriteDone(u, r) ==
    /\ u \in 1..Len(uploads)
    /\ uploads[u].state = "writing"
    /\ files' = IF r = "ok" THEN (uploads[u].name :> uploads[u].data) @@ files
                ELSE files
    /\ uploads' = [uploads EXCEPT ![u].state = "responded",
                                   ![u].wrote = r,
                                   ![u].responses = Append(@, writeFileCallback(r = "err"))]
    /\ UNCHANGED <<lifecycleVars, arg, result>>

\* The uploads of one test run: one browser and test page, with or without
\* navigator and document, two coverage objects.
SampleBodies ==
    { Body(ua, url, cov) :
        ua  \in {Undefined, Str(<<Tok("Chrome", "/", "1")>>)},
        url \in {Undefined, Str(<<"/", "a">>)},
        cov \in {JObj(<<>>), JObj(<<[k |-> "a", v |-> JNum("1")]>>)} }

InitReceiver ==
    /\ LifecycleUnused
    /\ uploads = <<>>
    /\ files = <<>>
    /\ arg = NoValue
    /\ result = NoValue

NextReceiver ==
    \/ \E body \in SampleBodies, rand \in 0..MaxRandom : Upload(body, rand)
    \/ \E u \in 1..MaxUploads, r \in {"ok", "err"} : WriteDone(u, r)

SpecReceiver == InitReceiver /\ [][NextReceiver]_vars

\* The bodies of a single upload.
Bodies ==
    { Body(ua, url, cov) :
        ua  \in {Undefined, Str(<<>>), Str(<<Tok("Chrome", "/", "1")>>),
                 Str(<<Tok("SomeBot", "/", "1")>>)},
        url \in Urls,
        cov \in JsonValues }

InitUploadOnce ==
    /\ LifecycleUnused
    /\ uploads = <<>>
    /\ files = <<>>
    /\ arg \in Bodies
    /\ result = NoValue

UploadOnce ==
    /\ uploads = <<>>
    /\ \E rand \in 0..MaxRandom : Upload(arg, rand)

NextUploadOnce ==
    \/ UploadOnce
    \/ \E r \in {"ok", "err"} : WriteDone(1, r)

SpecUploadOnce == InitUploadOnce /\ [][NextUploadOnce]_vars


-----------------------------------------------------------------------------
(* gpii.testem.constructProxies                                            *)
(*                                                                         *)
(* A group of directory definitions is the sequence of its values in       *)
(* declaration order; a path is a sequence of symbols.                     *)

DirDef(filePath, proxyPath, priority) ==
    [filePath |-> filePath, proxyPath |-> proxyPath, priority |-> priority]

DirDefs ==
    { DirDef(<<"a", "src">>, "none", 1), DirDef(<<"b", "src">>, "none", 2),
      DirDef(<<"tests">>, "none", 2),    DirDef(<<"lib">>, "tests", 1) }

AdditionalPaths == { <<"/", "src">>, <<"/", "extra">> }

SeqsUpTo(xs, n) == UNION { [1..len -> xs] : len \in 0..n }

CoverageUrl == <<"http://localhost:", "7000">>

\* gpii.testem.expandPath: the definition with its filePath made absolute.
expandPath(def) == [def EXCEPT !.filePath = <<"cwd">> \o @]

\* gpii.testem.extractProxyPath: "/" and the mount segment, which is the
\* explicit one or the last component of filePath.
extractProxyPath(def) ==
    <<"/", IF def.proxyPath # "none" THEN def.proxyPath
           ELSE def.filePath[Len(def.filePath)]>>

\* fluid.parsePriorityRecords: definition x comes before definition y: by
\* higher priority, then by declaration.
priorityBefore(defs, x, y) ==
    \/ defs[x].priority > defs[y].priority
    \/ defs[x].priority = defs[y].priority /\ x < y

\* fluid.parsePriorityRecords(expandedDefs, "testem-proxy-paths"): the
\* declaration indices in priority order.
parsePriorityRecords(defs) ==
    [pos \in 1..Len(defs) |->
        CHOOSE x \in 1..Len(defs) :
            Cardinality({y \in 1..Len(defs) : priorityBefore(defs, y, x)}) = pos - 1]

\* The paths pushed to dirPaths for one group, each with where it is from.
groupPaths(defs, group) ==
    LET expandedDefs   == [x \in 1..Len(defs) |-> expandPath(defs[x])]
        orderedDirDefs == parsePriorityRecords(expandedDefs)
    IN  [pos \in 1..Len(defs) |->
            [path |-> extractProxyPath(expandedDefs[orderedDirDefs[pos]]),
             from |-> <<group, orderedDirDefs[pos]>>]]

\* As setProxy, with a key that is already there left as it is.
setProxyKeepFirst(proxies, dirPath, coverageUrl) ==
    IF \E x \in 1..Len(proxies) : proxies[x].key = dirPath.path
    THEN proxies
    ELSE Append(proxies, [key |-> dirPath.path, target |-> coverageUrl,
                          from |-> dirPath.from])

\* proxies[dirPath] = { "target": coverageUrl }: a new key is added after
\* the others, the value of an existing key is replaced.
setProxy(proxies, dirPath, coverageUrl) ==
    IF \E x \in 1..Len(proxies) : proxies[x].key = dirPath.path
    THEN [x \in 1..Len(proxies) |->
             IF proxies[x].key = dirPath.path
             THEN [key |-> dirPath.path, target |-> coverageUrl, from |-> dirPath.from]
             ELSE proxies[x]]
    ELSE Append(proxies, [key |-> dirPath.path, target |-> coverageUrl,
                          from |-> dirPath.from])

RECURSIVE eachDirPath(_, _, _, _)
eachDirPath(proxies, dirPaths, x, coverageUrl) ==
    IF x > Len(dirPaths) THEN proxies
    ELSE eachDirPath(setProxy(proxies, dirPaths[x], coverageUrl), dirPaths, x + 1,
                     coverageUrl)

constructProxies(sourceDirs, contentDirs, additionalProxies, coverageUrl) ==
    LET dirPaths ==
            groupPaths(sourceDirs, "source")
            \o groupPaths(contentDirs, "content")
            \o [x \in 1..Len(additionalProxies) |->
                   [path |-> additionalProxies[x], from |-> <<"additional", x>>]]
    IN  eachDirPath(<<>>, dirPaths, 1, coverageUrl)

InitProxies ==
    /\ LifecycleUnused
    /\ uploads = <<>>
    /\ files = <<>>
    /\ arg \in [sourceDirs : SeqsUpTo(DirDefs, MaxDirs),
                contentDirs : SeqsUpTo(DirDefs, MaxDirs),
                additionalProxies : SeqsUpTo(AdditionalPaths, MaxDirs)]
    /\ result = NoValue

CallConstructProxies ==
    /\ ~result.done
    /\ result' = Returned(constructProxies(arg.sourceDirs, arg.contentDirs,
                                           arg.additionalProxies, CoverageUrl))
    /\ UNCHANGED <<lifecycleVars, uploads, files, arg>>

NextProxies == CallConstructProxies

SpecProxies == InitProxies /\ [][NextProxies]_vars

-----------------------------------------------------------------------------
(* Properties *)

Settled(c) == calls[c].out \in {"resolved", "rejected"}

\* Something of call c is outstanding that will call back: a removal, an
\* instrumentation, a report, or the timer of its wait.
Pending(c) ==
    \/ calls[c].pc \in {"rimraf", "instrument", "report"}
    \/ c \in timers

\* The position of a listener in the chain of a call, 0 when the chain does
\* not have it.
StepIndex(kind, name) ==
    IF \E n \in 1..Len(Listeners(kind)) : Listeners(kind)[n] = name
    THEN CHOOSE n \in 1..Len(Listeners(kind)) : Listeners(kind)[n] = name
    ELSE 0

\* What has become of a listener of the chain of call c: the chain invokes
\* its listeners in order (n is the one invoked last), goes past a listener
\* only when that listener resolved, and stops at the one that fails.
StepState(c, name) ==
    LET idx == StepIndex(calls[c].kind, name)
    IN  CASE idx = 0 \/ calls[c].n < idx -> "none"
          [] calls[c].n > idx -> "resolved"
          [] calls[c].out = "rejected" \/ calls[c].thrown -> "rejected"
          [] OTHER -> "running"

\* The wait of call c ended by its timeout: the timer callback is the only
\* code that settles the promise with no event arguments.
TimedOut(c) == calls[c].wait.disp # "none" /\ calls[c].wait.value # "args"

\* C1: the Testem callback of a call is invoked exactly once when the chain
\* of the call settles, resolved or rejected, and never more than once.
C1_CallbackOncePerSettledChain ==
    \A c \in Calls :
        /\ calls[c].cb <= 1
        /\ Settled(c) <=> calls[c].cb = 1

\* A chain has settled rejected and its callback has been invoked once.
C1_Witness ==
    \E c \in Calls : calls[c].out = "rejected" /\ calls[c].cb = 1

\* C2: every call is eventually followed by its callback, whatever the
\* outcome of each step, given that timers fire and started operations report
\* back.  Stated so that a finite run refutes it: a call whose callback has
\* not been invoked has a timer or an operation outstanding.
C2_CallAlwaysLeadsToCallback ==
    \A c \in Calls :
        (calls[c].pc # "idle" /\ calls[c].cb = 0) => Pending(c)

\* C3: no failure of a step is raised as an exception; each is turned into a
\* log line followed by the callback.
C3_NoFailureThrown ==
    \A c \in Calls : ~calls[c].thrown

\* C4: when the instrumentation of a source directory fails, the ready
\* callback of the call still fires exactly once.
C4_CallbackAfterInstrumentationFailure ==
    \A c \in Calls : StepState(c, "instrument") = "rejected" => calls[c].cb = 1

\* C5: removal failures of a cleanup stage never abort the enclosing chain:
\* after the initial cleanup the startup chain goes on to its next listener,
\* and after the final cleanup the shutdown chain settles resolved.
C5_CleanupNeverAbortsChain ==
    \A c \in Calls :
        (StepState(c, "cleanup") \in {"resolved", "rejected"}
            /\ calls[c].rejBy # "scan") =>
            /\ calls[c].kind = "start" => calls[c].n > 1
            /\ calls[c].kind = "exit" => calls[c].out = "resolved"

\* C6: every removal failure is absorbed; a cleanup stage rejects only on an
\* exception during path resolution, never on a removal error.
C6_StageRejectsOnlyOnResolutionError ==
    \A c \in Calls :
        StepState(c, "cleanup") = "rejected" => calls[c].rejBy = "scan"

C8_NoStopIssuedToStoppedServer ==
    lastStop # "stopped"

\* C9: a wait that ends by its timeout is resolved with no payload, and the
\* chain goes on to the listeners after it: on shutdown the report is
\* started and, unless the report rejects, so is the final cleanup.
C9_TimeoutResolvesAndChainProceeds ==
    \A c \in Calls :
        TimedOut(c) =>
            /\ calls[c].wait.disp = "resolve"
            /\ calls[c].wait.value = "undefined"
            /\ StepState(c, "waitForFixtures") = "resolved"
            /\ calls[c].kind = "start" => calls[c].out = "resolved"
            /\ (calls[c].kind = "exit" /\ grade = "testem") =>
                   StepState(c, "coverageReport") # "none"
            /\ (calls[c].kind = "exit"
                    /\ StepState(c, "coverageReport") \in {"none", "resolved"}) =>
                   StepState(c, "cleanup") # "none"

\* A shutdown wait has timed out and the final cleanup has been started.
C9_Witness ==
    \E c \in Calls :
        /\ calls[c].kind = "exit"
        /\ TimedOut(c)
        /\ StepState(c, "cleanup") # "none"

\* C10: once a wait has settled, the listener it registered has been
\* removed: every registered single-use listener is that of a pending wait.
C10_NoListenerOfSettledWait ==
    \A ev \in Events : \A c \in Range(lst[ev]) : calls[c].wait.disp = "none"

\* C11: the coverage directory exists before the content server accepts
\* traffic: the server has not signalled started while the mkdirp begun by
\* initMiddleware is still in flight.
C11_CoverageDirCreatedBeforeStarted ==
    ~(express = "running" /\ mkdirp)

\* C12: the final cleanup removes the instrumented-source and coverage
\* directories only once the content server has signalled stopped: no such
\* removal of a shutdown chain is in flight while the server is starting,
\* running or still stopping.
C12_NoSharedDirRemovedWhileServerUp ==
    \A c \in Calls :
        (/\ calls[c].kind = "exit"
         /\ calls[c].pc = "rimraf"
         /\ cleanupDefs[calls[c].i].name \in {"instrumented", "coverage"}) =>
            express \in {"none", "failed", "stopped"}

\* C18: the Testem callback is invoked asynchronously: never before the
\* call that received it has returned.
C18_CallbackNeverBeforeCallReturns ==
    \A c \in Calls : ~calls[c].sync

\* The position of a listener among the listeners a chain has invoked, 0
\* when it has not been invoked.
Pos(steps, name) ==
    IF \E x \in 1..Len(steps) : steps[x] = name
    THEN CHOOSE x \in 1..Len(steps) : steps[x] = name
    ELSE 0

\* Listener b has been invoked only after listener a.
Before(steps, a, b) ==
    Pos(steps, b) > 0 => (Pos(steps, a) > 0 /\ Pos(steps, a) < Pos(steps, b))

\* C20: in a startup chain the initial cleanup has settled before the
\* instrumentation begins, the instrumentation has settled before
\* constructFixtures is fired, the wait on onFixturesConstructed is started
\* after constructFixtures was fired, and the ready callback is invoked only
\* after the wait has settled or a step has rejected.
C20_StartupOrdering ==
    \A c \in Calls :
        calls[c].kind = "start" =>
            LET st == calls[c].steps
            IN  /\ Before(st, "cleanup", "instrument")
                /\ Before(st, "cleanup", "constructFixtures")
                /\ grade # "base" => Before(st, "instrument", "constructFixtures")
                /\ Before(st, "constructFixtures", "waitForFixtures")
                /\ Pos(st, "cleanup") # Len(st) =>
                       (calls[c].i = 0 /\ calls[c].q = <<>>)
                /\ Pos(st, "constructFixtures") > 0 => calls[c].k = 0
                /\ (c \in timers \/ calls[c].wait.disp # "none") =>
                       Pos(st, "constructFixtures") > 0
                /\ calls[c].cb > 0 =>
                       \/ calls[c].out = "rejected"
                       \/ /\ Pos(st, "waitForFixtures") > 0
                          /\ calls[c].wait.disp # "none"

\* A startup chain with instrumentation has run all its listeners and has
\* invoked the ready callback.
C20_Witness ==
    \E c \in Calls :
        /\ nsrc > 0
        /\ calls[c].kind = "start"
        /\ calls[c].steps =
               <<"cleanup", "instrument", "constructFixtures", "waitForFixtures">>
        /\ calls[c].out = "resolved"
        /\ calls[c].cb = 1

\* A pattern of uaMatch finds something in a lower-cased user agent.
PatternApplies(name, ua) ==
    CASE name = "chrome"  -> \E x \in 1..Len(ua) :
                                 ua[x].w = "chrome" /\ ua[x].sep \in {" ", "/"} /\ ua[x].ver # ""
      [] name = "webkit"  -> \E x \in 1..Len(ua) :
                                 ua[x].w = "webkit" /\ ua[x].sep \in {" ", "/"} /\ ua[x].ver # ""
      [] name = "opera"   -> \E x \in 1..Len(ua) :
                                 /\ ua[x].w = "opera"
                                 /\ \E y \in x..Len(ua) :
                                        /\ y = x \/ ua[y].w = "version"
                                        /\ ua[y].sep \in {" ", "/"} /\ ua[y].ver # ""
      [] name = "msie"    -> \E x \in 1..Len(ua) :
                                 ua[x].w = "msie" /\ ua[x].sep = " " /\ ua[x].ver # ""
      [] name = "mozilla" -> /\ \E x \in 1..Len(ua) : ua[x].w = "mozilla"
                             /\ \A x \in 1..Len(ua) : ua[x].w # "compatible"

PatternOrder == <<"chrome", "webkit", "opera", "msie", "mozilla">>

\* C15: uaMatch names a user agent after the first pattern, in the order
\* Chrome, WebKit, Opera, MSIE, Mozilla (without "compatible"), that finds
\* something in it, and gives name "unknown", version "0" when none does.
C15_FirstPatternWins ==
    (result.done /\ arg.present) =>
        LET ua == toLowerCase(arg.s)
            P  == {p \in 1..Len(PatternOrder) : PatternApplies(PatternOrder[p], ua)}
        IN  /\ ~result.thrown
            /\ P # {} => result.value.name = PatternOrder[Min(P)]
            /\ P = {} => result.value = [name |-> "unknown", version |-> "0"]

\* uaMatch has been applied to a string in which both the Chrome and the
\* WebKit pattern find something, the WebKit token first.
C15_Witness ==
    /\ result.done
    /\ arg.present
    /\ Len(arg.s) = 2
    /\ toLowerCase(arg.s)[1].w = "webkit"
    /\ toLowerCase(arg.s)[2].w = "chrome"
    /\ result.value.name = "chrome"

C14_AbsentFieldsTolerated ==
    \A u \in 1..Len(uploads) :
        LET r == uploads[u]
        IN  (~r.body.userAgent.present \/ ~r.body.URL.present) =>
                /\ r.state # "thrown"
                /\ ~r.body.userAgent.present =>
                       (r.name[3] = "unknown" /\ r.name[5] = "0")
                /\ ~r.body.URL.present => r.name[7] = "unknown"

\* C16: one file per report: the coverage directory holds as many files as
\* there were uploads answered with 200.
C16_OneFilePerSuccessfulUpload ==
    Cardinality(DOMAIN files) =
        Cardinality({u \in 1..Len(uploads) : uploads[u].wrote = "ok"})

\* seg is the part of s after its last "/".
IsLastSegment(seg, s) ==
    \E k \in 0..Len(s) :
        /\ seg = SubSeq(s, k + 1, Len(s))
        /\ \A x \in (k + 1)..Len(s) : s[x] # "/"
        /\ k = 0 \/ s[k] = "/"

\* sub occurs in s.
Contains(s, sub) ==
    \E x \in 0..(Len(s) - Len(sub)) : SubSeq(s, x + 1, x + Len(sub)) = sub

\* C19: an upload with document.URL U and coverage C whose write succeeds
\* leaves a file whose name contains the last segment of U, the browser's
\* name and version and the receiver's id, and whose content parses to C.
C19_FileNameAndContent ==
    \A u \in 1..Len(uploads) :
        LET r == uploads[u]
        IN  (r.wrote = "ok" /\ r.body.URL.present) =>
                /\ r.name \in DOMAIN files
                /\ \E seg \in {SubSeq(r.body.URL.s, k, Len(r.body.URL.s)) :
                                   k \in 1..(Len(r.body.URL.s) + 1)} :
                       IsLastSegment(seg, r.body.URL.s) /\ Contains(r.name, seg)
                /\ Contains(r.name, <<uaMatch(r.body.userAgent).value.name>>)
                /\ Contains(r.name, <<uaMatch(r.body.userAgent).value.version>>)
                /\ Contains(r.name, <<ReceiverId>>)
                /\ JSONparse(files[r.name]) = [ok |-> TRUE, v |-> r.body.coverage]

\* The file of an upload from a page below a directory, with an object of
\* two members as coverage, has been written.
C19_Witness ==
    /\ Len(uploads) = 1
    /\ uploads[1].wrote = "ok"
    /\ uploads[1].body.URL = Str(<<"a", "/", ".">>)
    /\ uploads[1].body.coverage.t = "obj"
    /\ Len(uploads[1].body.coverage.m) = 2
    /\ uploads[1].name \in DOMAIN files

\* The proxy paths of a group of definitions.
GroupKeys(defs) == {extractProxyPath(expandPath(defs[x])) : x \in 1..Len(defs)}

\* Definition x of a group is the last one, in priority order, with its
\* proxy path.
LastOfKey(defs, x) ==
    \A y \in 1..Len(defs) :
        (y # x /\ extractProxyPath(defs[y]) = extractProxyPath(defs[x])) =>
            priorityBefore(defs, y, x)

\* C17: the map constructProxies returns has exactly the proxy paths of the
\* source definitions, the content definitions and the additional paths as
\* keys, each once and with target coverageUrl, and the entry of a path that
\* several entries yield is the one written last in the order source group,
\* content group (each in priority order), additional paths.
C17_ProxyMap ==
    result.done =>
        LET proxies == result.value
            src == arg.sourceDirs
            cnt == arg.contentDirs
            add == arg.additionalProxies
        IN  /\ {proxies[x].key : x \in 1..Len(proxies)} =
                   GroupKeys(src) \cup GroupKeys(cnt) \cup Range(add)
            /\ \A x, y \in 1..Len(proxies) : proxies[x].key = proxies[y].key => x = y
            /\ \A x \in 1..Len(proxies) :
                   LET e == proxies[x]
                   IN  /\ e.target = CoverageUrl
                       /\ IF e.key \in Range(add)
                          THEN /\ e.from[1] = "additional"
                               /\ add[e.from[2]] = e.key
                               /\ \A y \in (e.from[2] + 1)..Len(add) : add[y] # e.key
                          ELSE IF e.key \in GroupKeys(cnt)
                          THEN /\ e.from[1] = "content"
                               /\ extractProxyPath(cnt[e.from[2]]) = e.key
                               /\ LastOfKey(cnt, e.from[2])
                          ELSE /\ e.from[1] = "source"
                               /\ extractProxyPath(src[e.from[2]]) = e.key
                               /\ LastOfKey(src, e.from[2])

\* A map has been built from a source and a content definition with the
\* same proxy path and an additional path of its own.
C17_Witness ==
    /\ result.done
    /\ Len(arg.sourceDirs) > 0
    /\ Len(arg.contentDirs) > 0
    /\ GroupKeys(arg.sourceDirs) \cap GroupKeys(arg.contentDirs) # {}
    /\ Len(arg.additionalProxies) > 0
    /\ Len(result.value) = 2

\* C21: in a shutdown chain the stop of the server is requested first, the
\* wait on onFixturesStopped is started only after it, the coverage report is
\* invoked only after the wait has settled, and the final cleanup is started
\* only after the report has settled: no removal of the chain has been
\* started while its report is running.
C21_ShutdownOrdering ==
    \A c \in Calls :
        calls[c].kind = "exit" =>
            LET st == calls[c].steps
            IN  /\ Len(st) > 0 => st[1] = "stopExpress"
                /\ Before(st, "stopExpress", "waitForFixtures")
                /\ (c \in timers \/ calls[c].wait.disp # "none") =>
                       Pos(st, "stopExpress") > 0
                /\ Before(st, "waitForFixtures", "coverageReport")
                /\ Pos(st, "coverageReport") > 0 => calls[c].wait.disp # "none"
                /\ Before(st, "waitForFixtures", "cleanup")
                /\ grade = "testem" => Before(st, "coverageReport", "cleanup")
                /\ Pos(st, "cleanup") > 0 =>
                       (calls[c].wait.disp # "none" /\ calls[c].pc # "report")
                /\ calls[c].pc = "report" => (calls[c].i = 0 /\ calls[c].q = <<>>)

\* A shutdown chain with a coverage report has run all its listeners and
\* has invoked the callback.
C21_Witness ==
    \E c \in Calls :
        /\ calls[c].kind = "exit"
        /\ calls[c].steps =
               <<"stopExpress", "waitForFixtures", "coverageReport", "cleanup">>
        /\ calls[c].out = "resolved"
        /\ calls[c].cb = 1

\* The listener of the chain of call c that rejected, "none" when none did.
RejectedStep(c) ==
    IF \E x \in 1..Len(calls[c].steps) : StepState(c, calls[c].steps[x]) = "rejected"
    THEN CHOOSE name \in Range(calls[c].steps) : StepState(c, name) = "rejected"
    ELSE "none"

\* C22: once a listener of a chain has rejected, no later listener of that
\* chain is started, and the callback is invoked right after the rejection:
\* the rejecting listener is the last one invoked, the chain has settled
\* rejected and its callback has been invoked once.
C22_RejectionShortCircuits ==
    \A c \in Calls :
        RejectedStep(c) # "none" =>
            /\ calls[c].steps[Len(calls[c].steps)] = RejectedStep(c)
            /\ calls[c].out = "rejected"
            /\ calls[c].cb = 1

\* The targets of the removals of a definition, in the order in which they
\* are made: its own path, then, for an isTestemContent definition, Temp-*
\* directories.
RemovalOrder(def, q) ==
    /\ q # <<>>
    /\ \A x \in 2..Len(q) : q[x] = "stray" /\ def.isTestemContent
    /\ q[1] \in {def.name} \cup (IF def.isTestemContent THEN {"stray"} ELSE {})

\* C23: within a cleanup stage at most one removal is in flight at any time,
\* and the removals are made in array order: from one removal of a stage
\* the stage goes to the next removal of the same definition, its own path
\* before the Temp-* directories, or to a later definition.
C23_CleanupStrictlySequential ==
    [][\A c \in Calls :
          /\ calls'[c].rm <= 1
          /\ calls'[c].pc = "rimraf" <=> calls'[c].rm = 1
          /\ calls'[c].pc = "rimraf" =>
                 /\ calls'[c].i \in 1..Len(cleanupDefs)
                 /\ RemovalOrder(cleanupDefs[calls'[c].i], calls'[c].q)
          /\ (calls[c].pc = "rimraf" /\ calls'[c].pc = "rimraf") =>
                 \/ calls'[c].i = calls[c].i /\ calls'[c].q \in {calls[c].q, Tail(calls[c].q)}
                 \/ calls'[c].i > calls[c].i]_vars

\* The removal of the Testem directory has settled and that of a Temp-*
\* directory, the next of the same definition, is the one in flight.
C23_Witness ==
    \E c \in Calls :
        /\ calls[c].pc = "rimraf"
        /\ calls[c].i = 1
        /\ calls[c].q = <<"stray">>
        /\ calls[c].rm = 1

\* C24: the promise of a wait is settled at most once and never rejected.
\* When the event fires first it is resolved with the event's arguments and
\* its timer is cancelled; when the timer fires first it is resolved with no
\* payload; whatever fires afterwards leaves the settled promise as it is.
C24_WaitSettlesOnceNeverRejected ==
    [][\A c \in Calls :
          /\ calls'[c].wait.disp \in {"none", "resolve"}
          /\ c \in timers' => calls'[c].wait.disp = "none"
          /\ (calls[c].wait.disp # "none" /\ calls'[c].wait.disp # "none") =>
                 calls'[c].wait = calls[c].wait
          /\ (calls[c].wait.disp = "none" /\ calls'[c].wait.disp # "none") =>
                 /\ calls[c].pc = "wait"
                 /\ c \in timers
                 /\ calls'[c].wait.value =
                        IF express' # express THEN "args" ELSE "undefined"]_vars

\* The wait of one call was resolved by the event and that of another by
\* its timeout.
C24_Witness ==
    \E c, d \in Calls :
        /\ calls[c].wait = [disp |-> "resolve", value |-> "args"]
        /\ calls[d].wait = [disp |-> "resolve", value |-> "undefined"]

\* C25: instrumentSource instruments the source directories one at a time
\* and in order, each after the one before it has succeeded; when one
\* fails, no later directory is instrumented and the startup chain goes no
\* further: constructFixtures is not fired and no wait is started.
C25_InstrumentationSequentialAndFatal ==
    [][\A c \in Calls :
          /\ calls'[c].ins <= 1
          /\ calls'[c].pc = "instrument" <=> calls'[c].ins = 1
          /\ calls'[c].pc = "instrument" =>
                 /\ calls'[c].k \in 1..nsrc
                 /\ calls'[c].steps[Len(calls'[c].steps)] = "instrument"
          /\ (calls'[c].pc = "instrument" /\ calls[c].pc # "instrument") =>
                 calls'[c].k = 1
          /\ (calls[c].pc = "instrument"
                  /\ (calls'[c].pc # "instrument" \/ calls'[c].k # calls[c].k)) =>
                 \/ /\ calls'[c].pc = "instrument"
                    /\ calls'[c].k = calls[c].k + 1
                    /\ "instrumented" \in fs'
                 \/ /\ calls[c].k = nsrc
                    /\ calls'[c].k = 0
                    /\ Pos(calls'[c].steps, "constructFixtures") > 0
                    /\ "instrumented" \in fs'
                 \/ /\ calls'[c].pc = "abandoned"
                    /\ calls'[c].k = calls[c].k
          /\ calls'[c].pc = "abandoned" =>
                 /\ calls'[c].steps[Len(calls'[c].steps)] = "instrument"
                 /\ Pos(calls'[c].steps, "constructFixtures") = 0
                 /\ calls'[c].wait.disp = "none"
                 /\ c \notin timers']_vars

\* The instrumentation of the second source directory failed after that of
\* the first had succeeded, and the chain has stopped there.
C25_Witness ==
    \E c \in Calls :
        /\ calls[c].pc = "abandoned"
        /\ calls[c].k = 2
        /\ Pos(calls[c].steps, "constructFixtures") = 0

\* C26: no signal of the server is missed by a wait: in a step in which the
\* server signals started (stopped), every wait on onFixturesConstructed
\* (onFixturesStopped) that is pending, its timer still armed, is resolved
\* through the event, with the event's arguments.
C26_NoSignalMissed ==
    [][\A c \in Calls :
          (/\ calls[c].pc = "wait"
           /\ c \in timers
           /\ \/ calls[c].kind = "start" /\ express = "starting" /\ express' = "running"
              \/ calls[c].kind = "exit" /\ express = "stopping" /\ express' = "stopped") =>
              calls'[c].wait = [disp |-> "resolve", value |-> "args"]]_vars

====
